---- MODULE Spec2Model ----
(***************************************************************************)
(* Model of scripts/parse.py: the TEPCat source fetcher, the ASCII/CSV     *)
(* record parser, the output builder and the command line driver.         *)
(*                                                                         *)
(* Python strings are sequences of one-character strings, so that split,   *)
(* replace, startswith, format and float act on characters as the code     *)
(* does.  Python objects carry a tag "t": str, float, int, dict.  An       *)
(* OrderedDict is the sequence of its <<key, value>> items in insertion    *)
(* order.  A call that may raise returns [exc, val]; exc = "none" means it *)
(* returned val.                                                           *)
(***************************************************************************)
EXTENDS Integers, Sequences, FiniteSets, TLC

VARIABLES
    \* direct calls of parse_ascii / parse_csv
    rows,               \* the field values of the input rows
    sep,                \* the whitespace run delimiting fields in ASCII input
    skip_err_margins,   \* the mode argument
    ascii_call,         \* parse_ascii(src, skip_err_margins): done, src, result
    csv_call,           \* parse_csv(src, skip_err_margins): done, src, result
    \* one run of main()
    pc,                 \* position of the run in main / fetch_source
    args,               \* the parsed command line
    resp,               \* the last HTTP response obtained
    source,             \* fetch_source's return value
    data,               \* the parsed Records
    out,                \* build_output's Envelope
    formatted,          \* json.dumps(out, indent=4)
    events,             \* observable effects in order: GETs, prints, file writes
    clock_reads,        \* how often datetime.utcnow() was called
    failure             \* the unhandled exception that ended the run, or "none"

parse_vars == <<rows, sep, skip_err_margins, ascii_call, csv_call>>
main_vars == <<pc, args, resp, source, data, out, formatted, events,
               clock_reads, failure>>
vars == <<rows, sep, skip_err_margins, ascii_call, csv_call, pc, args, resp,
          source, data, out, formatted, events, clock_reads, failure>>

----------------------------------------------------------------------------
(* Module constants, parse.py lines 10-18 *)

CSV_URL ==
    <<"h", "t", "t", "p", "s", ":", "/", "/", "w", "w", "w", ".", "a", "s",
      "t", "r", "o", ".", "k", "e", "e", "l", "e", ".", "a", "c", ".", "u",
      "k", "/", "j", "k", "t", "/", "t", "e", "p", "c", "a", "t", "/", "a",
      "l", "l", "p", "l", "a", "n", "e", "t", "s", "-", "c", "s", "v", ".",
      "c", "s", "v">>

ASCII_URL ==
    <<"h", "t", "t", "p", "s", ":", "/", "/", "w", "w", "w", ".", "a", "s",
      "t", "r", "o", ".", "k", "e", "e", "l", "e", ".", "a", "c", ".", "u",
      "k", "/", "j", "k", "t", "/", "t", "e", "p", "c", "a", "t", "/", "a",
      "l", "l", "p", "l", "a", "n", "e", "t", "s", "-", "a", "s", "c", "i",
      "i", ".", "t", "x", "t">>

HUMAN_URL ==
    <<"h", "t", "t", "p", "s", ":", "/", "/", "w", "w", "w", ".", "a", "s",
      "t", "r", "o", ".", "k", "e", "e", "l", "e", ".", "a", "c", ".", "u",
      "k", "/", "j", "k", "t", "/", "t", "e", "p", "c", "a", "t", "/", "p",
      "l", "a", "n", "e", "t", "s", "/", "{", "}", ".", "h", "t", "m", "l">>

ARXIV_URL ==
    <<"h", "t", "t", "p", "s", ":", "/", "/", "a", "r", "x", "i", "v", ".",
      "o", "r", "g", "/", "a", "b", "s", "/", "{", "}">>

FALLBACK_URL ==
    <<"h", "t", "t", "p", ":", "/", "/", "a", "d", "s", "a", "b", "s", ".",
      "h", "a", "r", "v", "a", "r", "d", ".", "e", "d", "u", "/", "a", "b",
      "s", "/", "{", "}">>

HELP_URL ==
    <<"h", "t", "t", "p", "s", ":", "/", "/", "w", "w", "w", ".", "a", "s",
      "t", "r", "o", ".", "k", "e", "e", "l", "e", ".", "a", "c", ".", "u",
      "k", "/", "j", "k", "t", "/", "t", "e", "p", "c", "a", "t", "/", "h",
      "t", "m", "l", "-", "q", "u", "a", "n", "t", "i", "t", "i", "e", "s",
      ".", "h", "t", "m", "l">>

----------------------------------------------------------------------------
(* Python values *)

PyStr(s) == [t |-> "str", v |-> s]
PyInt(n) == [t |-> "int", v |-> n]
PyDict(items) == [t |-> "dict", items |-> items]
PyList(items) == [t |-> "list", items |-> items]
PyNone == [t |-> "None"]
NoValue == [t |-> "NoValue"]

Return(v) == [exc |-> "none", val |-> v]
Raise(e) == [exc |-> e, val |-> NoValue]

\* OrderedDict: d[key] = value appends a new key, keeps the place of an old one
od_set(d, key, value) ==
    IF SelectSeq(d.items, LAMBDA item : item[1] = key) = <<>>
    THEN PyDict(Append(d.items, <<key, value>>))
    ELSE PyDict([i \in 1..Len(d.items) |->
                    IF d.items[i][1] = key THEN <<key, value>> ELSE d.items[i]])

od_keys(d) == [i \in 1..Len(d.items) |-> d.items[i][1]]

od_get(d, key) ==
    d.items[CHOOSE i \in 1..Len(d.items) : d.items[i][1] = key][2]

----------------------------------------------------------------------------
(* Python string methods *)

Whitespace == {" ", "\t", "\n", "\r"}

\* str.startswith(prefix)
startswith(s, prefix) ==
    /\ Len(s) >= Len(prefix)
    /\ SubSeq(s, 1, Len(prefix)) = prefix

\* the positions of s, in increasing order
positions(s) == [i \in 1..Len(s) |-> i]

\* str.replace(old, new): every non-overlapping occurrence, left to right.
\* hits are the places where old occurs; one that starts inside the
\* occurrence just replaced is passed over.
RECURSIVE replace_hits(_, _, _, _, _)
replace_hits(s, old, new, start, hits) ==
    IF hits = <<>> THEN SubSeq(s, start, Len(s))
    ELSE IF Head(hits) < start
         THEN replace_hits(s, old, new, start, Tail(hits))
         ELSE SubSeq(s, start, Head(hits) - 1) \o new
                \o replace_hits(s, old, new, Head(hits) + Len(old), Tail(hits))

replace(s, old, new) ==
    replace_hits(s, old, new, 1,
        SelectSeq(positions(s),
                  LAMBDA i : /\ i + Len(old) - 1 <= Len(s)
                             /\ SubSeq(s, i, i + Len(old) - 1) = old))

\* str.format(arg) of a template holding one "{}" replacement field
format(template, arg) ==
    LET i == CHOOSE j \in 1..(Len(template) - 1) :
                 template[j] = "{" /\ template[j + 1] = "}"
    IN SubSeq(template, 1, i - 1) \o arg \o SubSeq(template, i + 2, Len(template))

\* the pieces of s between the positions in cuts, empty pieces included
pieces(s, cuts) ==
    [k \in 1..(Len(cuts) + 1) |->
        SubSeq(s, (IF k = 1 THEN 0 ELSE cuts[k - 1]) + 1,
                  (IF k > Len(cuts) THEN Len(s) + 1 ELSE cuts[k]) - 1)]

\* str.split(): fields between runs of whitespace, no empty fields
split(s) ==
    SelectSeq(pieces(s, SelectSeq(positions(s), LAMBDA i : s[i] \in Whitespace)),
              LAMBDA f : f # <<>>)

\* str.split('\n'): the pieces between newlines, empty pieces kept
split_lines(s) == pieces(s, SelectSeq(positions(s), LAMBDA i : s[i] = "\n"))

----------------------------------------------------------------------------
(* float(str) on decimal literals: [sign] digits [. [digits]] or            *)
(* [sign] . digits.  The value is mant / 10^scale in lowest decimal form,   *)
(* so "20.50", "20.5" and "+20.5" are the same float.  The input alphabet   *)
(* of the model has none of e, E, n, f, _ so exponents, nan, inf and digit  *)
(* grouping cannot be spelled.                                              *)

DigitChars == <<"0", "1", "2", "3", "4", "5", "6", "7", "8", "9">>
IsDigit(c) == \E d \in 1..10 : DigitChars[d] = c
DigitVal(c) == (CHOOSE d \in 1..10 : DigitChars[d] = c) - 1

float_unsigned(s) == IF s # <<>> /\ Head(s) \in {"+", "-"} THEN Tail(s) ELSE s
float_negative(s) == s # <<>> /\ Head(s) = "-"

float_dots(s) == {i \in 1..Len(s) : s[i] = "."}

float_int_part(s) ==
    IF float_dots(s) = {} THEN s
    ELSE SubSeq(s, 1, (CHOOSE i \in float_dots(s) : TRUE) - 1)

float_frac_part(s) ==
    IF float_dots(s) = {} THEN <<>>
    ELSE SubSeq(s, (CHOOSE i \in float_dots(s) : TRUE) + 1, Len(s))

float_ok(tok) ==
    LET u == float_unsigned(tok) IN
    /\ Cardinality(float_dots(u)) <= 1
    /\ \A i \in 1..Len(u) : IsDigit(u[i]) \/ u[i] = "."
    /\ Len(float_int_part(u)) + Len(float_frac_part(u)) >= 1

RECURSIVE digits_value(_, _)
digits_value(s, acc) ==
    IF s = <<>> THEN acc ELSE digits_value(Tail(s), 10 * acc + DigitVal(Head(s)))

RECURSIVE float_normal(_, _)
float_normal(mant, scale) ==
    IF scale > 0 /\ mant % 10 = 0 THEN float_normal(mant \div 10, scale - 1)
    ELSE [t |-> "float", mant |-> mant, scale |-> scale]

float(tok) ==
    IF ~float_ok(tok) THEN Raise("ValueError")
    ELSE LET u == float_unsigned(tok)
             m == digits_value(float_int_part(u) \o float_frac_part(u), 0)
         IN Return(float_normal(IF float_negative(tok) THEN -m ELSE m,
                                Len(float_frac_part(u))))

----------------------------------------------------------------------------
(* parse_ascii, parse.py lines 44-120 *)

\* The field schema.  A name built by '{}_{}'.format(param, suffix) is the
\* pair <<param, suffix>>; a plain name is <<param>>.
props ==
    <<<<"system">>,
      <<"Teff">>, <<"Teff", "erru">>, <<"Teff", "errd">>,
      <<"FeH">>, <<"FeH", "erru">>, <<"FeH", "errd">>,
      <<"Msun">>, <<"Msun", "erru">>, <<"Msun", "errd">>,
      <<"Rsun">>, <<"Rsun", "erru">>, <<"Rsun", "errd">>,
      <<"cgs">>, <<"cgs", "erru">>, <<"cgs", "errd">>,
      <<"rhosun">>, <<"rhosun", "erru">>, <<"rhosun", "errd">>,
      <<"Porb">>,
      <<"ecc">>, <<"ecc", "erru">>, <<"ecc", "errd">>,
      <<"a_AU">>, <<"a_AU", "erru">>, <<"a_AU", "errd">>,
      <<"Mjup">>, <<"Mjup", "erru">>, <<"Mjup", "errd">>,
      <<"Rjup">>, <<"Rjup", "erru">>, <<"Rjup", "errd">>,
      <<"ms2">>, <<"ms2", "erru">>, <<"ms2", "errd">>,
      <<"rhoJup">>, <<"rhoJup", "erru">>, <<"rhoJup", "errd">>,
      <<"Teqk">>, <<"Teqk", "erru">>, <<"Teqk", "errd">>,
      <<"d_ref">>, <<"r_ref">>>>

\* Properties(*fields): one positional argument per schema field, or TypeError
Properties(fields) ==
    IF Len(fields) = Len(props) THEN Return(fields) ELSE Raise("TypeError")

\* getattr(x, name) on the namedtuple
getattr(x, name) == x[CHOOSE i \in 1..Len(props) : props[i] = name]

\* '{}_{}'.format(param, suffix)
format_pair(param, suffix) == param \o <<suffix>>

\* get_data_skip with a default in place of a value that is not a number
get_data_skip_default(x, param) ==
    IF float(getattr(x, param)).exc = "none" THEN float(getattr(x, param))
    ELSE Return([t |-> "float", mant |-> 0, scale |-> 0])

\* get_data of the skip_err_margins branch, lines 64-65
get_data_skip(x, param) == float(getattr(x, param))

\* get_data of the other branch, lines 67-74
get_data_full(x, param) ==
    LET value == float(getattr(x, param))
        error_plus == float(getattr(x, format_pair(param, "erru")))
        error_minus == float(getattr(x, format_pair(param, "errd")))
    IN IF value.exc # "none" THEN value
       ELSE IF error_plus.exc # "none" THEN error_plus
       ELSE IF error_minus.exc # "none" THEN error_minus
       ELSE Return(PyDict(<<<<"value", value.val>>,
                            <<"error_plus", error_plus.val>>,
                            <<"error_minus", error_minus.val>>>>))

\* get_data with the flag ignored: the error columns are always read
get_data_ignore_flag(x, param, skip) == get_data_full(x, param)

\* the get_data the flag selects, lines 63-74
get_data(x, param, skip) ==
    IF skip THEN get_data_skip(x, param) ELSE get_data_full(x, param)

\* the measurement keys of a Record and the column each is read from
TopFields ==
    <<<<"eccentricity", <<"ecc">>>>, <<"semimajor_AU", <<"a_AU">>>>>>

StellarFields ==
    <<<<"temp_k", <<"Teff">>>>, <<"metal_log", <<"FeH">>>>,
      <<"mass_sol", <<"Msun">>>>, <<"radius_sol", <<"Rsun">>>>,
      <<"gravity_log_cgs", <<"cgs">>>>, <<"density_sol", <<"rhosun">>>>>>

PlanetaryFields ==
    <<<<"mass_jup", <<"Mjup">>>>, <<"radius_jup", <<"Rjup">>>>,
      <<"gravity", <<"ms2">>>>, <<"density_jup", <<"rhoJup">>>>,
      <<"temp_eq_k", <<"Teqk">>>>>>

\* get_data(param) for each <<key, param>> in turn
measure(fields, x, skip) ==
    [i \in 1..Len(fields) |-> get_data(x, fields[i][2], skip)]

\* d[key] = get_data(param) for each <<key, param>>, given what each returned
filled(fields, got) ==
    PyDict([i \in 1..Len(fields) |-> <<fields[i][1], got[i].val>>])

\* reference_url with the + replaced in an arXiv URL too
reference_url_replace_all(ref) ==
    replace(format(IF startswith(ref, <<"a", "r", "X", "i", "v">>)
                   THEN ARXIV_URL ELSE FALLBACK_URL, ref),
            <<"+">>, <<"&">>)

\* lines 108-112 and 114-118: the URL of one bibliographic code
reference_url(ref) ==
    IF startswith(ref, <<"a", "r", "X", "i", "v">>)
    THEN format(ARXIV_URL, ref)
    ELSE replace(format(FALLBACK_URL, ref), <<"+">>, <<"&">>)

\* lines 106-118
references(x) ==
    PyDict(<<<<"human_url", PyStr(format(HUMAN_URL, getattr(x, <<"system">>)))>>,
             <<"discovery", PyStr(reference_url(getattr(x, <<"d_ref">>)))>>,
             <<"recent", PyStr(reference_url(getattr(x, <<"r_ref">>)))>>>>)

\* lines 81-118: the Record of one namedtuple.  The float calls run in the
\* order period, eccentricity, semimajor_AU, stellar, planetary, and the
\* first one that raises ends the row.
build_row(x, skip) ==
    LET period == float(getattr(x, <<"Porb">>))
        top == measure(TopFields, x, skip)
        stellar == measure(StellarFields, x, skip)
        planetary == measure(PlanetaryFields, x, skip)
        raised == SelectSeq(<<period>> \o top \o stellar \o planetary,
                            LAMBDA r : r.exc # "none")
    IN IF raised # <<>> THEN Head(raised)
       ELSE Return(PyDict(
                <<<<"system", PyStr(getattr(x, <<"system">>))>>,
                  <<"period", period.val>>>>
                \o filled(TopFields, top).items
                \o <<<<"stellar_properties", filled(StellarFields, stellar)>>,
                     <<"planetary_properties", filled(PlanetaryFields, planetary)>>,
                     <<"references", references(x)>>>>))

\* skipped with the test for an empty line left out
skipped_comments_only(line) == startswith(line, <<"#">>)

\* line 77: the lines the loop passes over
skipped(line) == startswith(line, <<"#">>) \/ line = <<>>

\* parse_loop recovering from a malformed row: the row is dropped and the
\* loop goes on
RECURSIVE parse_loop_recover(_, _, _)
parse_loop_recover(lines, skip, ret) ==
    IF lines = <<>> THEN Return(PyList(ret))
    ELSE IF startswith(Head(lines), <<"#">>) \/ Head(lines) = <<>>
              \/ Len(split(Head(lines))) # Len(props)
         THEN parse_loop_recover(Tail(lines), skip, ret)
         ELSE LET row == build_row(split(Head(lines)), skip) IN
              IF row.exc # "none" THEN row
              ELSE parse_loop_recover(Tail(lines), skip, Append(ret, row.val))

\* lines 76-120: the loop over the lines, ret the Records appended so far
RECURSIVE parse_loop(_, _, _)
parse_loop(lines, skip, ret) ==
    IF lines = <<>> THEN Return(PyList(ret))
    ELSE IF skipped(Head(lines)) THEN parse_loop(Tail(lines), skip, ret)
    ELSE LET x == Properties(split(Head(lines))) IN
         IF x.exc # "none" THEN x
         ELSE LET row == build_row(x.val, skip) IN
              IF row.exc # "none" THEN row
              ELSE parse_loop(Tail(lines), skip, Append(ret, row.val))

parse_ascii(lines, skip) == parse_loop(lines, skip, <<>>)

\* parse_csv with the header line left in
parse_csv_keep_header(lines, skip) ==
    parse_ascii([i \in 1..Len(lines) |-> replace(lines[i], <<",">>, <<" ">>)],
                skip)

\* parse_csv, lines 39-41
parse_csv(lines, skip) ==
    LET body == IF lines = <<>> THEN <<>> ELSE Tail(lines)
        new_src == [i \in 1..Len(body) |-> replace(body[i], <<",">>, <<" ">>)]
    IN parse_ascii(new_src, skip)

----------------------------------------------------------------------------
(* Inputs of the parser: rows of field values and the lines that carry them *)

\* the most lines a source handed to the parser holds
MaxLines == 2

\* the decimal numeral of n < 100
Numeral(n) ==
    IF n < 10 THEN <<DigitChars[n + 1]>>
    ELSE <<DigitChars[(n \div 10) + 1], DigitChars[(n % 10) + 1]>>

\* a row whose column i holds the number i, so that no two columns agree
RowA ==
    [i \in 1..Len(props) |->
        CASE i = 1 -> <<"a">>
          [] i = 42 -> <<"a", "r", "X", "i", "v", "+", "1">>
          [] i = 43 -> <<"x", "+", "y", "+", "2">>
          [] OTHER -> Numeral(i)]

\* other spellings of numbers, a lower-case and a short arXiv look-alike
RowB ==
    [RowA EXCEPT ![1] = <<"b">>,
                 ![20] = <<"2", "0", ".", "5", "0">>,
                 ![21] = <<"-", ".", "5">>,
                 ![22] = <<"+", "3", ".">>,
                 ![42] = <<"a", "r", "x", "i", "v", "+", "1">>,
                 ![43] = <<"a", "r", "X">>]

RowChoices ==
    { RowA, RowB,
      [RowA EXCEPT ![20] = <<"x">>],                  \* Porb not a number
      [RowA EXCEPT ![21] = <<"1", ".", "2", ".", "3">>], \* ecc not a number
      [RowA EXCEPT ![39] = <<"-">>],                  \* Teqk not a number
      [RowA EXCEPT ![22] = <<"x">>],                  \* ecc_erru not a number
      [RowA EXCEPT ![41] = <<"x">>],                  \* Teqk_errd not a number
      SubSeq(RowA, 1, Len(RowA) - 1),                 \* one field short
      Append(RowA, <<"9">>),                          \* one field more
      <<<<"#", "c">>>>,                               \* a comment
      [RowA EXCEPT ![1] = <<"#", "a">>],              \* a commented-out row
      <<>>,                                           \* an empty line
      <<<<>>, <<>>>>,                                 \* delimiters only
      [RowA EXCEPT ![1] = <<"a", ",", "b">>] }        \* a comma inside a field

\* the fields of a row joined by a delimiter
RECURSIVE join(_, _)
join(row, delim) ==
    IF row = <<>> THEN <<>>
    ELSE IF Len(row) = 1 THEN Head(row)
    ELSE Head(row) \o delim \o join(Tail(row), delim)

ascii_lines(rs, delim) == [i \in 1..Len(rs) |-> join(rs[i], delim)]
csv_lines(rs) == [i \in 1..Len(rs) |-> join(rs[i], <<",">>)]

\* the header line of a CSV source
CsvHeader == <<"s", "y", "s", "t", "e", "m", ",", "T", "e", "f", "f">>

Pending == [done |-> FALSE, src |-> <<>>, result |-> Raise("pending")]

Idle ==
    /\ pc = "idle"
    /\ args = [type |-> "ascii", from_file |-> PyNone, skip_errors |-> FALSE,
               export |-> PyNone, quiet |-> FALSE]
    /\ resp = NoValue
    /\ source = <<>>
    /\ data = NoValue
    /\ out = NoValue
    /\ formatted = NoValue
    /\ events = <<>>
    /\ clock_reads = 0
    /\ failure = "none"

Init ==
    /\ rows \in UNION {[1..n -> RowChoices] : n \in 0..MaxLines}
    /\ sep \in {<<" ">>, <<"\t", " ">>}
    /\ skip_err_margins \in BOOLEAN
    /\ ascii_call = Pending
    /\ csv_call = Pending
    /\ Idle

\* parse_ascii(src, skip_err_margins) on the rows as whitespace-delimited lines
CallParseAscii ==
    /\ ~ascii_call.done
    /\ LET lines == ascii_lines(rows, sep) IN
       ascii_call' = [done |-> TRUE, src |-> lines,
                      result |-> parse_ascii(lines, skip_err_margins)]
    /\ UNCHANGED <<rows, sep, skip_err_margins, csv_call, main_vars>>

\* parse_csv(src, skip_err_margins) on a header and the rows as comma-delimited lines
CallParseCsv ==
    /\ ~csv_call.done
    /\ LET lines == <<CsvHeader>> \o csv_lines(rows) IN
       csv_call' = [done |-> TRUE, src |-> lines,
                    result |-> parse_csv(lines, skip_err_margins)]
    /\ UNCHANGED <<rows, sep, skip_err_margins, ascii_call, main_vars>>

Next == CallParseAscii \/ CallParseCsv

Spec == Init /\ [][Next]_vars

----------------------------------------------------------------------------
(* build_output, parse.py lines 123-135 *)

\* datetime.utcnow() values: calendar fields of an instant
Times ==
    { [year |-> 2017, month |-> 3, day |-> 5, hour |-> 1, minute |-> 2,
       second |-> 3, microsecond |-> 500000],
      [year |-> 2024, month |-> 2, day |-> 29, hour |-> 23, minute |-> 59,
       second |-> 59, microsecond |-> 0] }

MonthAbbr ==
    <<<<"J", "a", "n">>, <<"F", "e", "b">>, <<"M", "a", "r">>,
      <<"A", "p", "r">>, <<"M", "a", "y">>, <<"J", "u", "n">>,
      <<"J", "u", "l">>, <<"A", "u", "g">>, <<"S", "e", "p">>,
      <<"O", "c", "t">>, <<"N", "o", "v">>, <<"D", "e", "c">>>>

TwoDigits(n) == <<DigitChars[((n \div 10) % 10) + 1], DigitChars[(n % 10) + 1]>>

\* '{0:%Y-%b-%d %X}'.format(now)
format_time(now) ==
    TwoDigits(now.year \div 100) \o TwoDigits(now.year) \o <<"-">>
      \o MonthAbbr[now.month] \o <<"-">> \o TwoDigits(now.day) \o <<" ">>
      \o TwoDigits(now.hour) \o <<":">> \o TwoDigits(now.minute) \o <<":">>
      \o TwoDigits(now.second)

\* timegm(now.timetuple()): whole seconds since 1970-01-01 00:00:00 UTC
timegm(now) ==
    LET y == IF now.month <= 2 THEN now.year - 1 ELSE now.year
        era == y \div 400
        yoe == y - era * 400
        mp == IF now.month > 2 THEN now.month - 3 ELSE now.month + 9
        doy == (153 * mp + 2) \div 5 + now.day - 1
        doe == yoe * 365 + yoe \div 4 - yoe \div 100 + doy
        days == era * 146097 + doe - 719468
    IN ((days * 24 + now.hour) * 60 + now.minute) * 60 + now.second

\* build_output stamping the time whatever the flag says
build_output_always_stamp(d, timestamp, now) ==
    PyDict(<<<<"fetched_data_human_utc", PyStr(format_time(now))>>,
             <<"fetched_data_unix_utc", PyInt(timegm(now))>>,
             <<"units_info", PyStr(HELP_URL)>>,
             <<"data", d>>>>)

\* build_output(data, timestamp); now is what utcnow() returns if it is called
build_output(d, timestamp, now) ==
    LET stamped ==
            IF timestamp
            THEN od_set(od_set(PyDict(<<>>),
                     "fetched_data_human_utc", PyStr(format_time(now))),
                     "fetched_data_unix_utc", PyInt(timegm(now)))
            ELSE od_set(od_set(PyDict(<<>>),
                     "fetched_date_human", PyStr(<<"u", "n", "k", "n", "o", "w", "n">>)),
                     "fetched_date_unix", PyInt(0))
    IN od_set(od_set(stamped, "units_info", PyStr(HELP_URL)), "data", d)

\* json.dumps(obj, indent=4): the text of obj, kept as the object it spells
\* and the indentation, since two texts are equal exactly when these are
json_dumps(obj, indent) == [t |-> "text", json |-> obj, indent |-> indent]

----------------------------------------------------------------------------
(* main and fetch_source, parse.py lines 21-36 and 138-175 *)

\* a truthy str: not None and not empty
Truthy(v) == v.t = "str" /\ v.v # <<>>

Args ==
    [type : {"ascii", "csv"},
     from_file : {PyNone, PyStr(<<>>), PyStr(<<"i", "n">>)},
     skip_errors : BOOLEAN,
     export : {PyNone, PyStr(<<>>), PyStr(<<"e", "x">>)},
     quiet : BOOLEAN]

\* the texts a URL or a file may hold
Documents ==
    { <<"#", "c", "\n">> \o join(RowA, <<" ">>) \o <<"\n">>,
      join(RowA, <<" ">>) \o <<"\n">> \o join(SubSeq(RowA, 1, Len(RowA) - 1), <<" ">>),
      join(RowB, <<" ">>) \o <<"\n">> \o join([RowA EXCEPT ![20] = <<"x">>], <<" ">>),
      CsvHeader \o <<"\n">> \o join(RowB, <<",">>) \o <<"\n">> }

Statuses == {200, 404, 500}

\* lines 157 and 163: the URL main fetches
MainURI == IF args.type = "ascii" THEN ASCII_URL ELSE CSV_URL

Warning ==
    PyStr(<<"w", "a", "r", "n", "i", "n", "g", ":", " ", "T", "L", "S">>)

Confirmation(name) ==
    PyStr(<<"w", "r", "i", "t", "t", "e", "n", " ", "t", "o", " ",
            "f", "i", "l", "e", ":", " ">> \o name)

GetEvent(url, raised, status) ==
    [op |-> "GET", url |-> url, raised |-> raised, status |-> status]
PrintEvent(text) == [op |-> "print", text |-> text]
WriteEvent(name, text) == [op |-> "write", file |-> name, text |-> text]

Fail(e) ==
    /\ pc' = "failed"
    /\ failure' = e

InitMain ==
    /\ rows = <<>>
    /\ sep = <<" ">>
    /\ skip_err_margins = FALSE
    /\ ascii_call = Pending
    /\ csv_call = Pending
    /\ pc = "main"
    /\ args \in Args
    /\ resp = NoValue
    /\ source = <<>>
    /\ data = NoValue
    /\ out = NoValue
    /\ formatted = NoValue
    /\ events = <<>>
    /\ clock_reads = 0
    /\ failure = "none"

\* line 24: requests.get(URI) fails certificate verification
GetSSLError ==
    /\ pc = "main"
    /\ args.from_file = PyNone
    /\ events' = Append(events, GetEvent(MainURI, "SSLError", 0))
    /\ pc' = "warn"
    /\ UNCHANGED <<parse_vars, args, resp, source, data, out, formatted,
                   clock_reads, failure>>

\* GetFails with every exception of the first request caught and retried
GetFails_retry ==
    /\ pc = "main"
    /\ args.from_file = PyNone
    /\ events' = Append(events, GetEvent(MainURI, "ConnectionError", 0))
    /\ pc' = "warn"
    /\ UNCHANGED <<parse_vars, args, resp, source, data, out, formatted,
                   clock_reads, failure>>

\* line 24: requests.get(URI) raises anything else, which nothing catches
GetFails ==
    /\ pc = "main"
    /\ args.from_file = PyNone
    /\ events' = Append(events, GetEvent(MainURI, "ConnectionError", 0))
    /\ Fail("ConnectionError")
    /\ UNCHANGED <<parse_vars, args, resp, source, data, out, formatted,
                   clock_reads>>

\* line 24: requests.get(URI) returns a response
GetResponds ==
    /\ pc = "main"
    /\ args.from_file = PyNone
    /\ \E status \in Statuses, text \in Documents :
          /\ resp' = [status_code |-> status, text |-> text]
          /\ events' = Append(events, GetEvent(MainURI, "none", status))
    /\ pc' = "status"
    /\ UNCHANGED <<parse_vars, args, source, data, out, formatted,
                   clock_reads, failure>>

\* lines 26-27: the diagnostic of the except branch
PrintWarning ==
    /\ pc = "warn"
    /\ events' = Append(events, PrintEvent(Warning))
    /\ pc' = "retry"
    /\ UNCHANGED <<parse_vars, args, resp, source, data, out, formatted,
                   clock_reads, failure>>

\* line 28: the URL of the second request
RetryURI == replace(MainURI, <<"h", "t", "t", "p", "s">>, <<"h", "t", "t", "p">>)

\* line 28: the second requests.get raises; it is outside the try
RetryFails ==
    /\ pc = "retry"
    /\ \E e \in {"ConnectionError", "SSLError"} :
          /\ events' = Append(events, GetEvent(RetryURI, e, 0))
          /\ Fail(e)
    /\ UNCHANGED <<parse_vars, args, resp, source, data, out, formatted,
                   clock_reads>>

\* line 28: the second requests.get returns a response
RetryResponds ==
    /\ pc = "retry"
    /\ \E status \in Statuses, text \in Documents :
          /\ resp' = [status_code |-> status, text |-> text]
          /\ events' = Append(events, GetEvent(RetryURI, "none", status))
    /\ pc' = "status"
    /\ UNCHANGED <<parse_vars, args, source, data, out, formatted,
                   clock_reads, failure>>

\* lines 29-32 and 36: the status check, then the lines of the text
CheckStatus ==
    /\ pc = "status"
    /\ IF resp.status_code # 200
       THEN /\ Fail("RuntimeError")
            /\ UNCHANGED source
       ELSE /\ source' = split_lines(resp.text)
            /\ pc' = "parse"
            /\ UNCHANGED failure
    /\ UNCHANGED <<parse_vars, args, resp, data, out, formatted, events,
                   clock_reads>>

\* line 34: open(URI) raises; the empty path never opens
ReadFileFails ==
    /\ pc = "main"
    /\ args.from_file # PyNone
    /\ Fail("FileNotFoundError")
    /\ UNCHANGED <<parse_vars, args, resp, source, data, out, formatted,
                   events, clock_reads>>

\* lines 34-36: the file is read and split into lines
ReadFile ==
    /\ pc = "main"
    /\ args.from_file # PyNone
    /\ args.from_file.v # <<>>
    /\ \E text \in Documents : source' = split_lines(text)
    /\ pc' = "parse"
    /\ UNCHANGED <<parse_vars, args, resp, data, out, formatted, events,
                   clock_reads, failure>>

\* lines 155, 160, 161 and 166: the parser of the source type
parse_source(type, lines, skip) ==
    IF type = "ascii" THEN parse_ascii(lines, skip) ELSE parse_csv(lines, skip)

\* Parse with a parser error swallowed: main goes on with no Records
Parse_swallow ==
    /\ pc = "parse"
    /\ \E r \in {parse_source(args.type, source, args.skip_errors)} :
          data' = IF r.exc # "none" THEN PyList(<<>>) ELSE r.val
    /\ pc' = "build"
    /\ UNCHANGED <<parse_vars, args, resp, source, out, formatted, events,
                   clock_reads, failure>>

\* lines 160 and 166: parse, and leave main when the parser raises
Parse ==
    /\ pc = "parse"
    /\ \E r \in {parse_source(args.type, source, args.skip_errors)} :
          IF r.exc # "none"
          THEN /\ Fail(r.exc)
               /\ UNCHANGED data
          ELSE /\ data' = r.val
               /\ pc' = "build"
               /\ UNCHANGED failure
    /\ UNCHANGED <<parse_vars, args, resp, source, out, formatted, events,
                   clock_reads>>

\* lines 168-169: the Envelope and its text; the clock is read only to stamp
BuildOutput ==
    /\ pc = "build"
    /\ LET timestamp == ~Truthy(args.from_file) IN
       \E now \in Times :
          /\ out' = build_output(data, timestamp, now)
          /\ clock_reads' = IF timestamp THEN clock_reads + 1 ELSE clock_reads
    /\ formatted' = json_dumps(out', 4)
    /\ pc' = "print"
    /\ UNCHANGED <<parse_vars, args, resp, source, data, events, failure>>

\* lines 170-171
PrintOutput ==
    /\ pc = "print"
    /\ events' = IF ~args.quiet THEN Append(events, PrintEvent(formatted))
                 ELSE events
    /\ pc' = "export"
    /\ UNCHANGED <<parse_vars, args, resp, source, data, out, formatted,
                   clock_reads, failure>>

\* line 172: no export asked for
SkipExport ==
    /\ pc = "export"
    /\ ~Truthy(args.export)
    /\ pc' = "done"
    /\ UNCHANGED <<parse_vars, args, resp, source, data, out, formatted,
                   events, clock_reads, failure>>

\* line 173: open(args.export, 'w') raises
ExportFails ==
    /\ pc = "export"
    /\ Truthy(args.export)
    /\ Fail("PermissionError")
    /\ UNCHANGED <<parse_vars, args, resp, source, data, out, formatted,
                   events, clock_reads>>

\* lines 173-174
WriteExport ==
    /\ pc = "export"
    /\ Truthy(args.export)
    /\ events' = Append(events, WriteEvent(args.export.v, formatted))
    /\ pc' = "confirm"
    /\ UNCHANGED <<parse_vars, args, resp, source, data, out, formatted,
                   clock_reads, failure>>

\* line 175
PrintConfirmation ==
    /\ pc = "confirm"
    /\ events' = Append(events, PrintEvent(Confirmation(args.export.v)))
    /\ pc' = "done"
    /\ UNCHANGED <<parse_vars, args, resp, source, data, out, formatted,
                   clock_reads, failure>>

NextMain ==
    \/ GetSSLError \/ GetFails \/ GetResponds
    \/ PrintWarning \/ RetryFails \/ RetryResponds \/ CheckStatus
    \/ ReadFileFails \/ ReadFile
    \/ Parse \/ BuildOutput \/ PrintOutput
    \/ SkipExport \/ ExportFails \/ WriteExport \/ PrintConfirmation

SpecMain == InitMain /\ [][NextMain]_vars

----------------------------------------------------------------------------
(* What the claims say of an input row, stated on its field values.  No     *)
(* field value of RowChoices holds whitespace, so the line of a row splits  *)
(* into its non-empty field values.                                         *)

FieldCount(r) == Cardinality({i \in 1..Len(r) : r[i] # <<>>})

EmptyLine(r) == r = <<>> \/ r = <<<<>>>>

CommentLine(r) == r # <<>> /\ r[1] # <<>> /\ r[1][1] = "#"

SkippedLine(r) == EmptyLine(r) \/ CommentLine(r)

\* the columns holding the central value of a measurement
ValueColumns == {2, 5, 8, 11, 14, 17, 21, 24, 27, 30, 33, 36, 39}

Numeric(tok) == float(tok).exc = "none"

\* a data row the parser accepts in the given mode
WellFormed(r, skip) ==
    /\ Len(r) = 43
    /\ FieldCount(r) = 43
    /\ Numeric(r[20])
    /\ \A c \in ValueColumns :
          /\ Numeric(r[c])
          /\ ~skip => Numeric(r[c + 1]) /\ Numeric(r[c + 2])

DataRows == SelectSeq(rows, LAMBDA r : ~SkippedLine(r))

AsciiReturned == ascii_call.done /\ ascii_call.result.exc = "none"
AsciiRaised ==
    /\ ascii_call.done
    /\ ascii_call.result.exc \in {"TypeError", "ValueError"}
    /\ ascii_call.result.val = NoValue

\* C1 as stated: a non-skipped line whose field count is not 44 makes
\* parse_ascii raise and return no record list.
C1_Stated ==
    (ascii_call.done /\ \E i \in 1..Len(rows) :
        ~SkippedLine(rows[i]) /\ FieldCount(rows[i]) # 44)
    => AsciiRaised

\* C1 amended: a non-skipped line whose field count is not 43, the length of
\* the schema, makes parse_ascii raise and return no record list, in either
\* mode and whatever well-formed rows came before it.
C1_FieldCountFatal ==
    (ascii_call.done /\ \E i \in 1..Len(rows) :
        ~SkippedLine(rows[i]) /\ FieldCount(rows[i]) # 43)
    => AsciiRaised

C1_Witness ==
    /\ AsciiRaised
    /\ Len(rows) = 2
    /\ WellFormed(rows[1], skip_err_margins) /\ ~SkippedLine(rows[1])
    /\ FieldCount(rows[2]) = 44

\* C2: when every line is empty, a comment or a well-formed data row,
\* parse_ascii returns one Record per data row in input order, with system
\* the row's first field and period its Porb field as a number.
C2_OneRecordPerDataRow ==
    (ascii_call.done /\ \A i \in 1..Len(rows) :
        SkippedLine(rows[i]) \/ WellFormed(rows[i], skip_err_margins))
    => /\ AsciiReturned
       /\ Len(ascii_call.result.val.items) = Len(DataRows)
       /\ \A k \in 1..Len(DataRows) :
             /\ od_get(ascii_call.result.val.items[k], "system") = PyStr(DataRows[k][1])
             /\ od_get(ascii_call.result.val.items[k], "period") = float(DataRows[k][20]).val

C2_Witness ==
    /\ AsciiReturned
    /\ Len(rows) = 2
    /\ SkippedLine(rows[1])
    /\ ~SkippedLine(rows[2])
    /\ Len(ascii_call.result.val.items) = 1
    /\ od_get(ascii_call.result.val.items[1], "period")
         = [t |-> "float", mant |-> 205, scale |-> 1]

\* C3: rows whose field values hold no comma give the same result, Records
\* or failure, as comma-delimited lines under a header to parse_csv and as
\* whitespace-delimited lines to parse_ascii, in the same mode.
C3_CsvAsciiEquivalent ==
    (/\ ascii_call.done
     /\ csv_call.done
     /\ \A i \in 1..Len(rows) : \A j \in 1..Len(rows[i]) :
           \A k \in 1..Len(rows[i][j]) : rows[i][j][k] # ",")
    => csv_call.result = ascii_call.result

C3_Witness ==
    /\ AsciiReturned
    /\ csv_call.done
    /\ csv_call.result.exc = "none"
    /\ csv_call.src # ascii_call.src
    /\ Len(csv_call.result.val.items) = 2

\* the measurement fields of a Record: the group holding the field ("" for
\* the Record itself), its key, and the column of its central value
Measurements ==
    { <<"", "eccentricity", 21>>, <<"", "semimajor_AU", 24>>,
      <<"stellar_properties", "temp_k", 2>>,
      <<"stellar_properties", "metal_log", 5>>,
      <<"stellar_properties", "mass_sol", 8>>,
      <<"stellar_properties", "radius_sol", 11>>,
      <<"stellar_properties", "gravity_log_cgs", 14>>,
      <<"stellar_properties", "density_sol", 17>>,
      <<"planetary_properties", "mass_jup", 27>>,
      <<"planetary_properties", "radius_jup", 30>>,
      <<"planetary_properties", "gravity", 33>>,
      <<"planetary_properties", "density_jup", 36>>,
      <<"planetary_properties", "temp_eq_k", 39>> }

Measured(rec, m) ==
    IF m[1] = "" THEN od_get(rec, m[2]) ELSE od_get(od_get(rec, m[1]), m[2])

\* C4: with skip_err_margins every measurement field is the number in its
\* central value column, whatever the error columns hold; without it the
\* field is an object with exactly the keys value, error_plus, error_minus
\* read from the columns <field>, <field>_erru, <field>_errd.
C4_MeasurementShape ==
    (ascii_call.done /\ \A i \in 1..Len(rows) :
        SkippedLine(rows[i]) \/ WellFormed(rows[i], skip_err_margins))
    => /\ AsciiReturned
       /\ \A k \in 1..Len(DataRows) : \A m \in Measurements :
            LET f == Measured(ascii_call.result.val.items[k], m)
                r == DataRows[k]
            IN IF skip_err_margins
               THEN f = float(r[m[3]]).val
               ELSE /\ f.t = "dict"
                    /\ od_keys(f) = <<"value", "error_plus", "error_minus">>
                    /\ od_get(f, "value") = float(r[m[3]]).val
                    /\ od_get(f, "error_plus") = float(r[m[3] + 1]).val
                    /\ od_get(f, "error_minus") = float(r[m[3] + 2]).val

C4_Witness ==
    /\ AsciiReturned
    /\ skip_err_margins
    /\ Len(ascii_call.result.val.items) = 2
    /\ ~Numeric(rows[1][22])
    /\ ~Numeric(rows[2][41])
    /\ od_get(ascii_call.result.val.items[1], "eccentricity")
         = [t |-> "float", mant |-> 21, scale |-> 0]

\* C5: a data row with the right field count and a non-numeric Porb or
\* central value column makes parse_ascii raise and return no record list,
\* in either mode and after any number of well-formed rows.
C5_NonNumericFatal ==
    (ascii_call.done /\ \E i \in 1..Len(rows) :
        /\ ~SkippedLine(rows[i])
        /\ Len(rows[i]) = 43 /\ FieldCount(rows[i]) = 43
        /\ \E c \in ValueColumns \cup {20} : ~Numeric(rows[i][c]))
    => AsciiRaised

C5_Witness ==
    /\ AsciiRaised
    /\ ascii_call.result.exc = "ValueError"
    /\ skip_err_margins
    /\ Len(rows) = 2
    /\ WellFormed(rows[1], TRUE) /\ ~SkippedLine(rows[1])
    /\ ~Numeric(rows[2][39])

\* the URL the claim gives a bibliographic code
ArxivAbs ==
    <<"h", "t", "t", "p", "s", ":", "/", "/", "a", "r", "x", "i", "v", ".",
      "o", "r", "g", "/", "a", "b", "s", "/">>

FallbackAbs ==
    <<"h", "t", "t", "p", ":", "/", "/", "a", "d", "s", "a", "b", "s", ".",
      "h", "a", "r", "v", "a", "r", "d", ".", "e", "d", "u", "/", "a", "b",
      "s", "/">>

IsArxivCode(code) ==
    /\ Len(code) >= 5
    /\ code[1] = "a" /\ code[2] = "r" /\ code[3] = "X"
    /\ code[4] = "i" /\ code[5] = "v"

ClaimedUrl(code) ==
    IF IsArxivCode(code) THEN ArxivAbs \o code
    ELSE FallbackAbs \o [i \in 1..Len(code) |->
                            IF code[i] = "+" THEN "&" ELSE code[i]]

\* C6: each of the two reference URLs of a Record is the arXiv abstract URL
\* of its code, unchanged, when the code starts with arXiv, and otherwise the
\* fallback URL of the code with every + turned into & and no + left.
C6_ReferenceUrls ==
    AsciiReturned =>
        \A k \in 1..Len(DataRows) :
            LET refs == od_get(ascii_call.result.val.items[k], "references")
                d == od_get(refs, "discovery").v
                r == od_get(refs, "recent").v
            IN /\ d = ClaimedUrl(DataRows[k][42])
               /\ r = ClaimedUrl(DataRows[k][43])
               /\ ~IsArxivCode(DataRows[k][42]) => \A i \in 1..Len(d) : d[i] # "+"
               /\ ~IsArxivCode(DataRows[k][43]) => \A i \in 1..Len(r) : r[i] # "+"

C6_Witness ==
    /\ AsciiReturned
    /\ Len(ascii_call.result.val.items) = 1
    /\ LET refs == od_get(ascii_call.result.val.items[1], "references") IN
       /\ od_get(refs, "discovery").v
            = ArxivAbs \o <<"a", "r", "X", "i", "v", "+", "1">>
       /\ od_get(refs, "recent").v = FallbackAbs \o <<"x", "&", "y", "&", "2">>

----------------------------------------------------------------------------
(* What the claims say of a run of main *)

Gets == SelectSeq(events, LAMBDA e : e.op = "GET")

EnvelopePrinted ==
    \E i \in 1..Len(events) : events[i].op = "print" /\ events[i].text.t = "text"

FileWritten == \E i \in 1..Len(events) : events[i].op = "write"

\* the two forms of an instant as Python prints them
Stamp(now) ==
    IF now.year = 2017
    THEN <<PyStr(<<"2", "0", "1", "7", "-", "M", "a", "r", "-", "0", "5", " ",
                   "0", "1", ":", "0", "2", ":", "0", "3">>),
           PyInt(1488675723)>>
    ELSE <<PyStr(<<"2", "0", "2", "4", "-", "F", "e", "b", "-", "2", "9", " ",
                   "2", "3", ":", "5", "9", ":", "5", "9">>),
           PyInt(1709251199)>>

\* C7: with a local file as the source the clock is never read and the two
\* timestamp fields of the Envelope are "unknown" and 0; with a remote source
\* they are the two forms of the one instant read; either way the Envelope
\* carries units_info, the units URL, and data, the Records as parsed.
C7_LocalSentinel ==
    /\ args.from_file # PyNone => clock_reads = 0
    /\ out # NoValue =>
          /\ Len(out.items) = 4
          /\ IF args.from_file # PyNone
             THEN /\ out.items[1][2] = PyStr(<<"u", "n", "k", "n", "o", "w", "n">>)
                  /\ out.items[2][2] = PyInt(0)
             ELSE /\ clock_reads = 1
                  /\ \E now \in Times :
                        <<out.items[1][2], out.items[2][2]>> = Stamp(now)
          /\ od_keys(out)[3] = "units_info"
          /\ od_get(out, "units_info") = PyStr(HELP_URL)
          /\ od_keys(out)[4] = "data"
          /\ od_get(out, "data") = data
          /\ data = parse_source(args.type, source, args.skip_errors).val

C7_Witness ==
    /\ pc = "done"
    /\ Truthy(args.from_file)
    /\ Len(data.items) = 1
    /\ out.items[1][2] = PyStr(<<"u", "n", "k", "n", "o", "w", "n">>)

\* C8 as stated: whatever is written to the export file is an object with
\* the keys fetched_data_human_utc, fetched_data_unix_utc, units_info, data
\* in that order, also when the source was a local file.
C8_Stated ==
    \A i \in 1..Len(events) :
        events[i].op = "write" =>
            od_keys(events[i].text.json)
              = <<"fetched_data_human_utc", "fetched_data_unix_utc",
                  "units_info", "data">>

\* C9: fetch_source issues at most two GETs; the second only after the first
\* failed certificate verification and the diagnostic was printed, to the
\* same address with http for https; any other failure of a request ends the
\* run with no further request; lines are returned only from a response of
\* status 200, and any other status ends the run.
C9_OneTlsFallback ==
    /\ Len(Gets) <= 2
    /\ Len(Gets) = 2 =>
          /\ Gets[1].raised = "SSLError"
          /\ SubSeq(Gets[1].url, 1, 8) = <<"h", "t", "t", "p", "s", ":", "/", "/">>
          /\ Gets[2].url = <<"h", "t", "t", "p">>
                             \o SubSeq(Gets[1].url, 6, Len(Gets[1].url))
          /\ SubSeq(events, 1, 3) = <<Gets[1], PrintEvent(Warning), Gets[2]>>
    /\ (Len(Gets) >= 1 /\ Gets[1].raised \notin {"none", "SSLError"}) =>
          Len(Gets) = 1 /\ pc = "failed"
    /\ (Len(Gets) >= 1 /\ Gets[Len(Gets)].raised # "none"
                       /\ pc \notin {"warn", "retry"}) =>
          pc = "failed" /\ source = <<>>
    /\ (Len(Gets) >= 1 /\ Gets[Len(Gets)].raised = "none"
                       /\ Gets[Len(Gets)].status # 200) =>
          /\ source = <<>>
          /\ pc \in {"status", "failed"}
          /\ pc = "failed" => failure = "RuntimeError"
    /\ (args.from_file = PyNone /\ source # <<>>) =>
          /\ Gets[Len(Gets)].raised = "none"
          /\ Gets[Len(Gets)].status = 200
          /\ source = split_lines(resp.text)

C9_Witness ==
    /\ pc = "done"
    /\ Len(Gets) = 2
    /\ Gets[2].status = 200

\* C10: a run that a bad status, a failed request, an unreadable file or a
\* parser error ends never prints the Envelope and never writes the export
\* file; a run that ends well has printed the Envelope text exactly when
\* quiet is not set and, when an export path was given, has last written
\* that same text to the file and then printed the line naming the file.
C10_NoPartialOutput ==
    /\ (pc = "failed" /\ failure # "PermissionError") =>
          ~EnvelopePrinted /\ ~FileWritten
    /\ (source # <<>>
          /\ parse_source(args.type, source, args.skip_errors).exc # "none") =>
          ~EnvelopePrinted /\ ~FileWritten /\ pc \in {"parse", "failed"}
    /\ (resp # NoValue /\ resp.status_code # 200) =>
          ~EnvelopePrinted /\ ~FileWritten /\ pc \in {"status", "failed"}
    /\ pc = "done" =>
          /\ failure = "none"
          /\ formatted.json = out
          /\ ~args.quiet <=> (\E i \in 1..Len(events) :
                                 events[i] = PrintEvent(formatted))
          /\ args.quiet => ~EnvelopePrinted
          /\ IF Truthy(args.export)
             THEN /\ Len(events) >= 2
                  /\ events[Len(events) - 1] = WriteEvent(args.export.v, formatted)
                  /\ events[Len(events)] = PrintEvent(Confirmation(args.export.v))
             ELSE ~FileWritten

C10_Witness ==
    /\ pc = "failed"
    /\ failure = "ValueError"
    /\ ~args.quiet
    /\ Truthy(args.export)
    /\ Len(Gets) = 1

====
